---- MODULE Spec2Model ----
(***************************************************************************)
(* A model of the SQL agent (src/agent/sql_agent.py) and of the schema     *)
(* store behind it (src/rag/rag_manager.py).                               *)
(*                                                                         *)
(* Text is a sequence of one-character strings.  The turns of the          *)
(* conversation are Python dicts: they live in `heap` and lists hold       *)
(* references (indices into heap), so that aliasing between the stored     *)
(* history and the lists handed out to callers is part of the model.       *)
(***************************************************************************)
EXTENDS Integers, Sequences, FiniteSets, TLC

\* ------------------------------------------------------------------ bounds
\* dict objects ever allocated for turns (caps the number of appends)
MaxTurns == 3
\* fields of stored turns a caller of get_history overwrites
MaxOverwrites == 1
\* revisions of the definition of one table among the schema files
MaxRevisions == 2

\* ------------------------------------------------------- program constants
\* len(assistant_msg) > 200
SummarizeThreshold == 200
\* assistant_msg[:100]
SummaryPrefixLen == 100

VARIABLES
    \* SQLAgent fields
    enable_conversation_history,
    max_history_length,
    history_in_prompt,
    summarize_old_turns,
    conversation_history,
    \* the dict objects of the turns
    heap,
    \* a list returned by get_history and kept by its caller
    snap,
    \* the turns appended since the history was last empty, as appended (ghost)
    appended,
    \* what the last operation did and returned
    ret,
    \* DATABASE_SCHEMAS_DIR: whether it exists, and the content of each *.json
    dir_exists,
    schema_files,
    \* SchemaRAGManager.collection, the records of the vector store
    collection,
    \* the schema last passed to add_schema under each id still stored (ghost)
    upserted,
    \* what the last operation on the schema store did and returned
    store_ret,
    \* the prompts last built from one request: combined, and system with user
    built,
    \* the threads inside generate_query on the one agent, each with its position
    callers,
    \* interactive_mode: the position of its loop and what the last turn of it did
    session

configVars == <<enable_conversation_history, max_history_length, history_in_prompt,
                summarize_old_turns>>

agentVars == <<configVars, conversation_history, heap, snap, appended, ret>>

storeVars == <<dir_exists, schema_files, collection, upserted, store_ret>>

driverVars == <<built, callers, session>>

vars == <<agentVars, storeVars, driverVars>>

\* ------------------------------------------------------------------- text
Whitespace == {" ", "\n", "\t"}

\* s[start:] of Python, start possibly negative
PySliceFrom(s, start) ==
    LET lo == IF start < 0
              THEN (IF Len(s) + start < 0 THEN 0 ELSE Len(s) + start)
              ELSE (IF start > Len(s) THEN Len(s) ELSE start)
    IN SubSeq(s, lo + 1, Len(s))

\* s[:stop] of Python, stop >= 0
PySliceTo(s, stop) == SubSeq(s, 1, IF stop > Len(s) THEN Len(s) ELSE stop)

RECURSIVE LStrip(_)
LStrip(s) == IF s # <<>> /\ Head(s) \in Whitespace THEN LStrip(Tail(s)) ELSE s

RECURSIVE RStrip(_)
RStrip(s) ==
    IF s # <<>> /\ s[Len(s)] \in Whitespace THEN RStrip(SubSeq(s, 1, Len(s) - 1)) ELSE s

\* str.strip()
Strip(s) == RStrip(LStrip(s))

\* "Error: No relevant tables found for this query."
NoTablesError ==
    <<"E","r","r","o","r",":"," ","N","o"," ","r","e","l","e","v","a","n","t"," ",
      "t","a","b","l","e","s"," ","f","o","u","n","d"," ","f","o","r"," ",
      "t","h","i","s"," ","q","u","e","r","y",".">>

\* "[Generated SQL query: "
SummaryOpen ==
    <<"[","G","e","n","e","r","a","t","e","d"," ","S","Q","L"," ",
      "q","u","e","r","y",":"," ">>

\* "...]"
SummaryClose == <<".",".",".","]">>

\* ----------------------------------------------------------------- inputs
Requests == { <<"g","e","t"," ","a">>, <<"o","n","l","y"," ","b">> }

\* a query whose first SummaryPrefixLen characters differ from the rest
LongText(n) == [i \in 1..n |-> IF i <= SummaryPrefixLen THEN "a" ELSE "b"]

ShortSQL == <<"S"," ","1">>

\* what the generation capability may answer: a short query with blanks
\* around it, and a query longer than SummarizeThreshold between a tab and a
\* newline
GenOutputs ==
    { <<" ">> \o ShortSQL \o <<"\n">>,
      <<"\t">> \o LongText(SummarizeThreshold + 1) \o <<"\n">> }

\* the turns appended to a history tracker driven on its own: a short
\* response, one of exactly SummarizeThreshold characters, one just above it
TurnInputs ==
    { [user |-> <<"g","e","t"," ","a">>, assistant |-> ShortSQL],
      [user |-> <<"o","n","l","y"," ","b">>, assistant |-> LongText(SummarizeThreshold)],
      [user |-> <<"g","e","t"," ","a">>, assistant |-> LongText(SummarizeThreshold + 1)] }

\* the configurations of SQLAgent.__init__ the model is run for
HistoryLengths == {0, 1, 2}

InPromptCounts == {0, 1, 2}

\* the generation capability returns text or raises
LlmOutcomes ==
    [ok : {TRUE}, text : GenOutputs, error : {""}]
    \cup {[ok |-> FALSE, text |-> <<>>, error |-> "ProviderError"]}

\* what retrieve_relevant_schemas may return
Retrievals == { <<>>, <<[table_name |-> "customers"], [table_name |-> "orders"]>> }

\* --------------------------------------------------------- turns and lists
\* reference 0 is a dict made by the caller of get_history, never a stored turn
CallerText == <<"x">>

CallerTurn == [user |-> CallerText, assistant |-> CallerText]

Deref(hp, r) == IF r = 0 THEN CallerTurn ELSE hp[r]

\* a list of references read turn for turn and field for field
View(h, hp) ==
    [i \in 1..Len(h) |->
        [ref |-> h[i], user |-> Deref(hp, h[i]).user, assistant |-> Deref(hp, h[i]).assistant]]

\* ----------------------------------------------------- SQLAgent, the parts
\* SummarizeTurn with len(assistant_msg) >= 200 for the test
SummarizeTurnAtThreshold(r, hp) ==
    IF Len(hp[r].assistant) >= SummarizeThreshold
    THEN [of |-> r, alias |-> FALSE, user |-> hp[r].user,
          assistant |-> SummaryOpen \o PySliceTo(hp[r].assistant, SummaryPrefixLen)
                                    \o SummaryClose]
    ELSE [of |-> r, alias |-> TRUE, user |-> hp[r].user, assistant |-> hp[r].assistant]

\* one turn of the loop of _prepare_history_for_prompt: `of` is the stored
\* turn the entry is made from, `alias` says the entry is that very dict
SummarizeTurn(r, hp) ==
    LET user_msg == hp[r].user
        assistant_msg == hp[r].assistant
    IN IF Len(assistant_msg) > SummarizeThreshold
       THEN [of |-> r, alias |-> FALSE, user |-> user_msg,
             assistant |-> SummaryOpen \o PySliceTo(assistant_msg, SummaryPrefixLen)
                                       \o SummaryClose]
       ELSE [of |-> r, alias |-> TRUE, user |-> hp[r].user, assistant |-> hp[r].assistant]

\* prepare_history_for_prompt writing the summary into the stored dict
\* (turn['assistant'] = assistant_summary) instead of into a new one
PrepareInPlace(history, hp) ==
    LET recent_turns == PySliceFrom(history, 0 - history_in_prompt)
        long == {recent_turns[i] : i \in 1..Len(recent_turns)}
        newHeap == [r \in 1..Len(hp) |->
                      IF r \in long /\ summarize_old_turns
                      THEN [user |-> hp[r].user, assistant |-> SummarizeTurn(r, hp).assistant]
                      ELSE hp[r]]
    IN [turns |-> [i \in 1..Len(recent_turns) |->
                      [of |-> recent_turns[i], alias |-> TRUE,
                       user |-> newHeap[recent_turns[i]].user,
                       assistant |-> newHeap[recent_turns[i]].assistant]],
        heap |-> newHeap]

\* _prepare_history_for_prompt (the second definition of the class body is the
\* one Python keeps): the list it returns and the heap it leaves behind
prepare_history_for_prompt(history, hp) ==
    IF history = <<>>
    THEN [turns |-> <<>>, heap |-> hp]
    ELSE LET recent_turns == PySliceFrom(history, 0 - history_in_prompt)
         IN IF ~summarize_old_turns
            THEN [turns |-> [i \in 1..Len(recent_turns) |->
                                [of |-> recent_turns[i], alias |-> TRUE,
                                 user |-> hp[recent_turns[i]].user,
                                 assistant |-> hp[recent_turns[i]].assistant]],
                  heap |-> hp]
            ELSE [turns |-> [i \in 1..Len(recent_turns) |-> SummarizeTurn(recent_turns[i], hp)],
                  heap |-> hp]

\* TrimHistory keeping the oldest turns (conversation_history[:max_history_length])
TrimHistoryKeepsOldest(h) ==
    IF Len(h) > max_history_length THEN PySliceTo(h, max_history_length) ELSE h

\* the trim at the end of _add_to_history
TrimHistory(h) ==
    IF Len(h) > max_history_length THEN PySliceFrom(h, 0 - max_history_length) ELSE h

\* _add_to_history: a new dict in the heap hp, appended, then the trim
add_to_history(hp, user_input, assistant_response) ==
    /\ heap' = Append(hp, [user |-> user_input, assistant |-> assistant_response])
    /\ conversation_history' = TrimHistory(Append(conversation_history, Len(hp) + 1))
    /\ appended' = Append(appended, [ref |-> Len(hp) + 1, user |-> user_input,
                                      assistant |-> assistant_response])

\* _format_schemas, one heading per schema
format_schemas(schemas) ==
    [i \in 1..Len(schemas) |-> <<"### Table: ", schemas[i].table_name>>]

\* create_sql_prompt: the sections of the prompt
create_sql_prompt(business_logic, schema_context, explain, history_for_prompt) ==
    [system_prompt    |-> TRUE,
     schema_context   |-> schema_context,
     history_block    |-> history_for_prompt # <<>>,
     history          |-> history_for_prompt,
     business_logic   |-> business_logic,
     task             |-> TRUE,
     explanation      |-> explain,
     output_format    |-> IF explain THEN "sql_then_explanation" ELSE "only_sql"]

\* the sections of the text create_sql_prompt returns, in the order of its
\* template
sql_prompt_layout(explain, history_for_prompt) ==
    <<"system_prompt", "schema_context">>
    \o (IF history_for_prompt # <<>> THEN <<"previous_conversation">> ELSE <<>>)
    \o <<"business_logic", "task_instructions">>
    \o (IF explain THEN <<"explanation_instructions">> ELSE <<>>)
    \o <<"output_format">>

\* get_system_prompt: SYSTEM_PROMPT, the text create_sql_prompt begins with
get_system_prompt == [system_prompt |-> TRUE]

\* create_user_message: it takes no history and its template has no
\* "## Output Format:" section
create_user_message(business_logic, schema_context, explain) ==
    [system_prompt    |-> FALSE,
     schema_context   |-> schema_context,
     history_block    |-> FALSE,
     history          |-> <<>>,
     business_logic   |-> business_logic,
     task             |-> TRUE,
     explanation      |-> explain,
     output_format    |-> "none"]

\* the sections of the text create_user_message returns, in the order of its
\* template
user_message_layout(explain) ==
    <<"schema_context", "business_logic", "task_instructions">>
    \o (IF explain THEN <<"explanation_instructions">> ELSE <<>>)

\* NoSchemas with the early return left out
NoSchemasNever(relevant_schemas) == FALSE

\* if not relevant_schemas
NoSchemas(relevant_schemas) == relevant_schemas = <<>>

\* CallLlm inside a try/except that masks the failure with an empty answer
CallLlmMasked(llm, prompt) ==
    [calls |-> <<[prompt |-> prompt, temperature |-> 0]>>, raised |-> FALSE,
     error |-> "", text |-> llm.text]

\* self.llm.generate(prompt, temperature=0.0): the calls made, and the text
\* returned unless the capability raised
CallLlm(llm, prompt) ==
    [calls |-> <<[prompt |-> prompt, temperature |-> 0]>>, raised |-> ~llm.ok,
     error |-> llm.error, text |-> llm.text]

\* the record of an operation op that returned nothing: the stored history
\* and the caller's list as they were when it began; prompts_built counts the
\* calls of create_sql_prompt and llm_calls lists those of llm.generate
Ret(op) ==
    [op |-> op, outcome |-> "return", value |-> <<>>, error |-> "",
     request |-> <<>>, retrieved |-> <<>>, llm_raised |-> FALSE, output |-> <<>>,
     prompts_built |-> 0, llm_calls |-> <<>>,
     pre |-> View(conversation_history, heap), preSnap |-> View(snap, heap)]

\* ------------------------------------------------------ SQLAgent, the calls
\* GenerateQuery with _add_to_history called before the prompt is built, the
\* response of the turn filled in when the generation call has returned
GenerateQueryAppendsFirst(business_logic, explain, relevant_schemas, llm) ==
    LET called == [Ret("generate_query") EXCEPT !.request = business_logic,
                                                 !.retrieved = relevant_schemas]
        new == Len(heap) + 1
        own == Append(heap, [user |-> business_logic, assistant |-> <<>>])
        history == TrimHistory(Append(conversation_history, new))
    IN
    /\ UNCHANGED <<configVars, snap>>
    /\ IF NoSchemas(relevant_schemas)
       THEN /\ ret' = [called EXCEPT !.value = NoTablesError]
            /\ UNCHANGED <<conversation_history, heap, appended>>
       ELSE IF ~enable_conversation_history
       THEN LET prompt == create_sql_prompt(business_logic, format_schemas(relevant_schemas),
                                            explain, <<>>)
                answer == CallLlm(llm, prompt)
                done == [called EXCEPT !.llm_raised = ~llm.ok, !.output = llm.text,
                                       !.prompts_built = 1, !.llm_calls = answer.calls]
            IN /\ ret' = IF answer.raised
                         THEN [done EXCEPT !.outcome = "raise", !.error = answer.error]
                         ELSE [done EXCEPT !.value = Strip(answer.text)]
               /\ UNCHANGED <<conversation_history, heap, appended>>
       ELSE LET prepared == prepare_history_for_prompt(history, own)
                prompt == create_sql_prompt(business_logic, format_schemas(relevant_schemas),
                                            explain, prepared.turns)
                answer == CallLlm(llm, prompt)
                done == [called EXCEPT !.llm_raised = ~llm.ok, !.output = llm.text,
                                       !.prompts_built = 1, !.llm_calls = answer.calls]
            IN /\ Len(heap) < MaxTurns
               /\ conversation_history' = history
               /\ IF answer.raised
                  THEN /\ ret' = [done EXCEPT !.outcome = "raise", !.error = answer.error]
                       /\ heap' = prepared.heap
                       /\ appended' = Append(appended, [ref |-> new, user |-> business_logic,
                                                        assistant |-> <<>>])
                  ELSE /\ ret' = [done EXCEPT !.value = Strip(answer.text)]
                       /\ heap' = [prepared.heap EXCEPT ![new].assistant = Strip(answer.text)]
                       /\ appended' = Append(appended, [ref |-> new, user |-> business_logic,
                                                        assistant |-> Strip(answer.text)])

\* generate_query; relevant_schemas is what the retrieval returns and llm
\* what the generation capability does when called
GenerateQuery(business_logic, explain, relevant_schemas, llm) ==
    LET called == [Ret("generate_query") EXCEPT !.request = business_logic,
                                                 !.retrieved = relevant_schemas]
    IN
    /\ UNCHANGED <<configVars, snap>>
    /\ IF NoSchemas(relevant_schemas)
       THEN /\ ret' = [called EXCEPT !.value = NoTablesError]
            /\ UNCHANGED <<conversation_history, heap, appended>>
       ELSE LET schema_context == format_schemas(relevant_schemas)
                prepared == IF enable_conversation_history /\ conversation_history # <<>>
                            THEN prepare_history_for_prompt(conversation_history, heap)
                            ELSE [turns |-> <<>>, heap |-> heap]
                prompt == create_sql_prompt(business_logic, schema_context, explain,
                                            prepared.turns)
                answer == CallLlm(llm, prompt)
                done == [called EXCEPT !.llm_raised = ~llm.ok, !.output = llm.text,
                                       !.prompts_built = 1, !.llm_calls = answer.calls]
            IN IF answer.raised
               THEN /\ ret' = [done EXCEPT !.outcome = "raise", !.error = answer.error]
                    /\ heap' = prepared.heap
                    /\ UNCHANGED <<conversation_history, appended>>
               ELSE /\ ret' = [done EXCEPT !.value = Strip(answer.text)]
                    /\ IF enable_conversation_history
                       THEN /\ Len(prepared.heap) < MaxTurns
                            /\ add_to_history(prepared.heap, business_logic, Strip(answer.text))
                       ELSE /\ heap' = prepared.heap
                            /\ UNCHANGED <<conversation_history, appended>>

\* generate_query called from outside interactive_mode, by one caller at a time
generate_query(business_logic, explain, relevant_schemas, llm) ==
    /\ GenerateQuery(business_logic, explain, relevant_schemas, llm)
    /\ UNCHANGED <<storeVars, driverVars>>

\* _add_to_history called on its own
append_turn(turn) ==
    /\ Len(heap) < MaxTurns
    /\ add_to_history(heap, turn.user, turn.assistant)
    /\ ret' = [Ret("append") EXCEPT !.request = turn.user]
    /\ UNCHANGED <<storeVars, driverVars, configVars, snap>>

\* clear_history, the method
ClearHistory ==
    /\ conversation_history' = <<>>
    /\ appended' = <<>>
    /\ ret' = Ret("clear_history")
    /\ UNCHANGED <<configVars, heap, snap>>

\* clear_history called from outside interactive_mode
clear_history ==
    /\ ClearHistory
    /\ UNCHANGED <<storeVars, driverVars>>

\* one request put both ways: create_sql_prompt with the history the agent
\* would pass it, and get_system_prompt with create_user_message
build_prompts(business_logic, explain, relevant_schemas) ==
    LET schema_context == format_schemas(relevant_schemas)
        history_for_prompt ==
            IF enable_conversation_history /\ conversation_history # <<>>
            THEN prepare_history_for_prompt(conversation_history, heap).turns
            ELSE <<>>
    IN /\ built' = <<[combined |-> create_sql_prompt(business_logic, schema_context,
                                                     explain, history_for_prompt),
                      combined_layout |-> sql_prompt_layout(explain, history_for_prompt),
                      system |-> get_system_prompt,
                      user |-> create_user_message(business_logic, schema_context, explain),
                      user_layout |-> user_message_layout(explain),
                      history_given |-> history_for_prompt]>>
       /\ UNCHANGED <<agentVars, storeVars, callers, session>>

\* ----------------------- threads in _add_to_history, one bytecode at a time
\* the threads that may call generate_query on the one agent
Callers == {"A", "B"}

\* the request a thread sends; its response is ShortSQL
RequestOf(c) == IF c = "A" THEN <<"g","e","t"," ","a">> ELSE <<"o","n","l","y"," ","b">>

\* no thread is between its append and the end of _add_to_history
Quiescent == \A c \in Callers : callers[c].pc \in {"idle", "done"}

\* thread c moves to the position pc
Moves(c, pc) == [callers EXCEPT ![c].pc = pc]

\* line 170, at the end of thread c's generate_query: the list the attribute
\* names at that moment grows by one dict
caller_appends(c) ==
    /\ callers[c].pc = "idle"
    /\ heap' = Append(heap, [user |-> RequestOf(c), assistant |-> ShortSQL])
    /\ conversation_history' = Append(conversation_history, Len(heap) + 1)
    /\ appended' = Append(appended, [ref |-> Len(heap) + 1, user |-> RequestOf(c),
                                      assistant |-> ShortSQL])
    /\ callers' = [callers EXCEPT ![c].pc = "test", ![c].turn = Len(heap) + 1]
    /\ UNCHANGED <<storeVars, configVars, snap, ret, built, session>>

\* line 176: len(self.conversation_history) > self.max_history_length
caller_tests(c) ==
    /\ callers[c].pc = "test"
    /\ callers' = Moves(c, IF Len(conversation_history) > max_history_length
                           THEN "slice" ELSE "done")
    /\ UNCHANGED <<agentVars, storeVars, built, session>>

\* line 177, the right-hand side: a new list, not yet bound to the attribute
caller_slices(c) ==
    /\ callers[c].pc = "slice"
    /\ callers' = [callers EXCEPT
                      ![c].pc = "assign",
                      ![c].sliced = PySliceFrom(conversation_history, 0 - max_history_length)]
    /\ UNCHANGED <<agentVars, storeVars, built, session>>

\* line 177, the assignment: the attribute names the new list
caller_assigns(c) ==
    /\ callers[c].pc = "assign"
    /\ conversation_history' = callers[c].sliced
    /\ callers' = Moves(c, "done")
    /\ UNCHANGED <<storeVars, configVars, heap, snap, appended, ret, built, session>>

\* ------------------------------------------------------- interactive_mode
UpperCase == <<"A","B","C","D","E","F","G","H","I","J","K","L","M",
               "N","O","P","Q","R","S","T","U","V","W","X","Y","Z">>

LowerCase == <<"a","b","c","d","e","f","g","h","i","j","k","l","m",
               "n","o","p","q","r","s","t","u","v","w","x","y","z">>

\* str.lower()
Lower(s) ==
    [i \in 1..Len(s) |->
        IF \E k \in 1..Len(UpperCase) : UpperCase[k] = s[i]
        THEN LowerCase[CHOOSE k \in 1..Len(UpperCase) : UpperCase[k] = s[i]]
        ELSE s[i]]

\* ['exit', 'quit', 'q']
ExitWords == { <<"e","x","i","t">>, <<"q","u","i","t">>, <<"q">> }

ClearWord == <<"c","l","e","a","r">>

HistoryWord == <<"h","i","s","t","o","r","y">>

\* IsExit without the .lower()
IsExitCaseSensitive(user_input) == user_input \in ExitWords

\* user_input.lower() in ['exit', 'quit', 'q']
IsExit(user_input) == Lower(user_input) \in ExitWords

\* what input() may return: the words of the loop in several spellings, the
\* empty line, blanks, and requests, one of them beginning with a word
Lines ==
    { <<"e","x","i","t">>, <<" ","Q","U","I","T"," ">>, <<"q">>, <<>>, <<" ","\t">>,
      <<"C","l","e","a","r">>, <<"h","i","s","t","o","r","y"," ">>,
      <<" ","g","e","t"," ","a"," ">>, <<"q","u","i","t"," ","a">> }

\* input(): a line, EOFError once the input has ended, or KeyboardInterrupt
Inputs ==
    [kind : {"line"}, text : Lines]
    \cup {[kind |-> "EOFError", text |-> <<>>], [kind |-> "KeyboardInterrupt", text |-> <<>>]}

\* the loop has taken the turn `did` on the raw line and stands at pc
Turn(did, raw, pc) ==
    [session EXCEPT !.did = did, !.raw = raw, !.pc = pc,
                    !.pre = View(conversation_history, heap)]

\* interactive_mode(explain) entered: the banner, then the loop
interactive_mode(explain) ==
    /\ session.pc = "off"
    /\ session' = [session EXCEPT !.pc = "input", !.explain = explain]
    /\ UNCHANGED <<agentVars, storeVars, built, callers>>

\* one turn of the while loop, lines 251-278, up to its continue, its break
\* or the entry of `except Exception`; once input() has raised EOFError it
\* raises it at every later call
loop_turn(input, relevant_schemas, llm) ==
    LET user_input == Strip(input.text)
        raw == input.text
    IN
    /\ session.pc = "input"
    /\ session.eof => input.kind # "line"
    /\ UNCHANGED <<storeVars, built, callers>>
    /\ IF input.kind = "KeyboardInterrupt"
       THEN /\ session' = Turn("interrupt", raw, "ended")
            /\ UNCHANGED agentVars
       ELSE IF input.kind = "EOFError"
       THEN /\ session' = [Turn("eof", raw, "error") EXCEPT !.eof = TRUE]
            /\ UNCHANGED agentVars
       ELSE IF IsExit(user_input)
       THEN /\ session' = Turn("break", raw, "ended")
            /\ UNCHANGED agentVars
       ELSE IF user_input = <<>>
       THEN /\ session' = Turn("skip", raw, "input")
            /\ UNCHANGED agentVars
       ELSE IF Lower(user_input) = ClearWord
       THEN /\ session' = Turn("clear", raw, "input")
            /\ ClearHistory
       ELSE IF Lower(user_input) = HistoryWord
       THEN /\ session' = Turn("history", raw, "input")
            /\ UNCHANGED agentVars
       ELSE /\ GenerateQuery(user_input, session.explain, relevant_schemas, llm)
            /\ session' = Turn("generate", raw,
                                IF ~NoSchemas(relevant_schemas) /\ ~llm.ok
                                THEN "error" ELSE "input")

\* except Exception as e: the error is printed and the loop goes on
prints_error ==
    /\ session.pc = "error"
    /\ session' = [session EXCEPT !.pc = "input"]
    /\ UNCHANGED <<agentVars, storeVars, built, callers>>

\* self.conversation_history.copy(): a new list of the same dicts
get_history ==
    /\ snap' = conversation_history
    /\ ret' = [Ret("get_history") EXCEPT !.value = conversation_history]
    /\ UNCHANGED <<storeVars, driverVars, configVars, conversation_history, heap, appended>>

for_prompt ==
    LET prepared == prepare_history_for_prompt(conversation_history, heap)
    IN /\ heap' = prepared.heap
       /\ ret' = [Ret("for_prompt") EXCEPT !.value = prepared.turns]
       /\ UNCHANGED <<storeVars, driverVars, configVars, conversation_history, snap, appended>>

\* ------------------------------------- the caller of get_history, its list
\* the caller works on the list it was handed before it calls the agent again
CallerHoldsList ==
    ret.op \in {"get_history", "caller_adds_turn", "caller_removes_turn", "caller_overwrites"}

\* the fields of stored dicts that hold the caller's text
Overwritten(hp) ==
    {<<r, f>> \in (1..Len(hp)) \X {"user", "assistant"} : hp[r][f] = CallerText}

\* snap.append({...})
caller_adds_turn ==
    /\ CallerHoldsList
    /\ \A i \in 1..Len(snap) : snap[i] # 0
    /\ snap' = Append(snap, 0)
    /\ ret' = Ret("caller_adds_turn")
    /\ UNCHANGED <<storeVars, driverVars, configVars, conversation_history, heap, appended>>

\* snap.pop(0)
caller_removes_turn ==
    /\ CallerHoldsList
    /\ snap # <<>>
    /\ snap' = Tail(snap)
    /\ ret' = Ret("caller_removes_turn")
    /\ UNCHANGED <<storeVars, driverVars, configVars, conversation_history, heap, appended>>

\* snap[i][field] = CallerText
caller_overwrites(i, field) ==
    /\ CallerHoldsList
    /\ i \in 1..Len(snap)
    /\ snap[i] # 0
    /\ Cardinality(Overwritten(heap)) < MaxOverwrites
    /\ heap' = [heap EXCEPT ![snap[i]][field] = CallerText]
    /\ ret' = Ret("caller_overwrites")
    /\ UNCHANGED <<storeVars, driverVars, configVars, conversation_history, snap, appended>>

\* ------------------------------------------------------- the schema files
TableNames == {"customers", "orders"}

\* the *.json files of the directory, by stem; one is named after no table
FileStems == {"customers", "orders", "misc"}

NoFile == [kind |-> "absent", table_name |-> "", rev |-> 0]

\* the table whose definition is revised among the files
RevisedTable == "customers"

\* the bytes of a file: a JSON object with a table_name (that of RevisedTable
\* in any revision, of another table in its first), a JSON object with no (or
\* an empty) table_name, or text that json.load rejects
FileContents ==
    [kind : {"json"}, table_name : {RevisedTable}, rev : 1..MaxRevisions]
    \cup [kind : {"json"}, table_name : TableNames \ {RevisedTable}, rev : {1}]
    \cup {[kind |-> "json", table_name |-> "", rev |-> 1],
          [kind |-> "garbage", table_name |-> "", rev |-> 1]}

\* schemas_path.glob("*.json")
JsonFiles == {f \in FileStems : schema_files[f] # NoFile}

\* the orders in which glob may list the files
RECURSIVE Orders(_)
Orders(S) ==
    IF S = {} THEN {<<>>}
    ELSE UNION {{<<f>> \o o : o \in Orders(S \ {f})} : f \in S}

\* _get_file_hash: the md5 digest of the bytes, taken as free of collisions
get_file_hash(bytes) == <<"md5", bytes.kind, bytes.table_name, bytes.rev>>

\* json.load(f): the schema dict, or an exception
json_load(bytes) ==
    IF bytes.kind = "json"
    THEN [raised |-> FALSE, schema |-> [table_name |-> bytes.table_name, rev |-> bytes.rev]]
    ELSE [raised |-> TRUE, schema |-> [table_name |-> "", rev |-> 0]]

\* json.dumps(schema) and json.loads of it
json_dumps(schema) == <<"{", "table_name", schema.table_name, "rev", schema.rev, "}">>

json_loads(text) == [table_name |-> text[3], rev |-> text[5]]

\* a dict without the key: schema.get("table_name") is None
None == "None"

\* the values of table_name that `not table_name` rejects
Falsy == {None, ""}

\* ------------------------------------------------------ the vector store
\* Upsert as collection.add would do it, the record with the id left in place
UpsertAdds(coll, id, document, metadata) ==
    coll \cup {[id |-> id, document |-> document, metadata |-> metadata]}

\* collection.upsert(ids=[id], documents=[document], metadatas=[metadata])
Upsert(coll, id, document, metadata) ==
    {d \in coll : d.id # id} \cup {[id |-> id, document |-> document, metadata |-> metadata]}

\* collection.get(ids=[id])['metadatas']
GetMetadatas(coll, id) == {d.metadata : d \in {x \in coll : x.id = id}}

\* get_all_table_names
get_all_table_names(coll) == {d.id : d \in coll}

\* _get_stored_metadata(table_name).get('file_hash', '')
stored_file_hash(coll, table_name) ==
    IF GetMetadatas(coll, table_name) = {}
    THEN <<>>
    ELSE (CHOOSE m \in GetMetadatas(coll, table_name) : TRUE).file_hash

\* _create_searchable_text
create_searchable_text(schema) == <<"Table: ", schema.table_name>>

\* add_schema without the test of table_name
AddSchemaUnchecked(coll, schema, file_hash) ==
    LET table_name == schema.table_name
        flattened_metadata ==
            [table_name |-> table_name, description |-> "",
             business_context |-> "", schema_json |-> json_dumps(schema),
             file_hash |-> file_hash]
    IN [raised |-> FALSE,
        coll |-> Upsert(coll, table_name, create_searchable_text(schema), flattened_metadata),
        upserts |-> <<[id |-> table_name, file_hash |-> file_hash]>>]

\* add_schema: the collection it leaves, the upserts it made, whether it raised
add_schema(coll, schema, file_hash) ==
    LET table_name == schema.table_name
    IN IF table_name \in Falsy
       THEN [raised |-> TRUE, coll |-> coll, upserts |-> <<>>]
       ELSE LET flattened_metadata ==
                    [table_name |-> table_name, description |-> "",
                     business_context |-> "", schema_json |-> json_dumps(schema),
                     file_hash |-> file_hash]
            IN [raised |-> FALSE,
                coll |-> Upsert(coll, table_name, create_searchable_text(schema),
                                flattened_metadata),
                upserts |-> <<[id |-> table_name, file_hash |-> file_hash]>>]

\* the test before the hash comparison, with force_reload ignored
CompareHashesIgnoringForce(force_reload, is_new) == ~is_new

\* if not force_reload and not is_new
CompareHashes(force_reload, is_new) == ~force_reload /\ ~is_new

\* Bump that leaves the skipped files out of the counts
BumpExceptSkipped(counts, key) ==
    IF key = "skipped" THEN counts ELSE [counts EXCEPT ![key] = @ + 1]

Bump(counts, key) == [counts EXCEPT ![key] = @ + 1]

\* one turn of the loop of load_schemas_from_directory over the file f; st
\* holds the collection, the counts and the upserts made so far, the count
\* each file went to (classes) and the schema last upserted per id (upserted)
LoadFile(st, f, existing_tables, force_reload) ==
    LET bytes == schema_files[f]
        file_hash == get_file_hash(bytes)
        loaded == json_load(bytes)
        table_name == loaded.schema.table_name
        is_new == table_name \notin existing_tables
        error == [st EXCEPT !.counts = Bump(@, "errors"), !.classes[f] = "errors"]
    IN IF loaded.raised
       THEN error
       ELSE IF table_name \in Falsy
       THEN error
       ELSE IF /\ CompareHashes(force_reload, is_new)
               /\ stored_file_hash(st.coll, table_name) = file_hash
       THEN [st EXCEPT !.counts = Bump(@, "skipped"), !.classes[f] = "skipped"]
       ELSE LET added == add_schema(st.coll, loaded.schema, file_hash)
                key == IF is_new THEN "new" ELSE "updated"
            IN IF added.raised
               THEN error
               ELSE [coll |-> added.coll,
                     counts |-> Bump(st.counts, key),
                     upserts |-> st.upserts \o added.upserts,
                     classes |-> [st.classes EXCEPT ![f] = key],
                     upserted |-> [st.upserted EXCEPT ![table_name] = <<loaded.schema>>]]

\* LoadFiles with the try around the loop: the first file that fails ends it
RECURSIVE LoadFilesStopAtError(_, _, _, _)
LoadFilesStopAtError(st, order, existing_tables, force_reload) ==
    IF order = <<>> THEN st
    ELSE LET turn == LoadFile(st, Head(order), existing_tables, force_reload)
         IN IF turn.classes[Head(order)] = "errors"
            THEN turn
            ELSE LoadFilesStopAtError(turn, Tail(order), existing_tables, force_reload)

\* the loop of load_schemas_from_directory over the files in glob's order
RECURSIVE LoadFiles(_, _, _, _)
LoadFiles(st, order, existing_tables, force_reload) ==
    IF order = <<>> THEN st
    ELSE LoadFiles(LoadFile(st, Head(order), existing_tables, force_reload),
                   Tail(order), existing_tables, force_reload)

ZeroCounts == [new |-> 0, updated |-> 0, skipped |-> 0, errors |-> 0]

\* no file of the directory has been counted
NoClasses == [f \in FileStems |-> "none"]

\* the state of the loop before its first turn
LoopStart(coll, last) ==
    [coll |-> coll, counts |-> ZeroCounts, upserts |-> <<>>, classes |-> NoClasses,
     upserted |-> last]

\* NoJsonFiles with the test left out
NoJsonFilesNever(json_files) == FALSE

\* if not json_files
NoJsonFiles(json_files) == json_files = {}

\* the record of an operation op on the schema store that made no upsert;
\* after_sync says the operation before it was a sync that returned
StoreRet(op) ==
    [op |-> op, outcome |-> "return", error |-> "", counts |-> ZeroCounts,
     upserts |-> <<>>, removed |-> 0, force_reload |-> FALSE,
     after_sync |-> (store_ret.op = "sync" /\ store_ret.outcome = "return"),
     pre |-> collection, classes |-> NoClasses,
     schema |-> <<>>, repeat |-> FALSE, name |-> "", top_k |-> 0, n_results |-> 0,
     queries |-> 0, value |-> <<>>]

\* load_schemas_from_directory(force_reload); glob lists the files in any order
load_schemas_from_directory(force_reload) ==
    LET called == [StoreRet("sync") EXCEPT !.force_reload = force_reload]
    IN
    /\ UNCHANGED <<agentVars, driverVars, dir_exists, schema_files>>
    /\ IF ~dir_exists
       THEN /\ store_ret' = [called EXCEPT !.outcome = "raise", !.error = "FileNotFoundError"]
            /\ UNCHANGED <<collection, upserted>>
       ELSE IF NoJsonFiles(JsonFiles)
       THEN /\ store_ret' = [called EXCEPT !.outcome = "raise", !.error = "ValueError"]
            /\ UNCHANGED <<collection, upserted>>
       ELSE \E order \in Orders(JsonFiles) :
               LET existing_tables == get_all_table_names(collection)
                   done == LoadFiles(LoopStart(collection, upserted),
                                     order, existing_tables, force_reload)
               IN /\ collection' = done.coll
                  /\ upserted' = done.upserted
                  /\ store_ret' = [called EXCEPT !.counts = done.counts,
                                                 !.upserts = done.upserts,
                                                 !.classes = done.classes]

\* Orphans with the difference taken the other way round
OrphansReversed(stored_tables, json_files) == json_files \ stored_tables

\* stored_tables - json_files, json_files being the stems of the *.json files
Orphans(stored_tables, json_files) == stored_tables \ json_files

\* remove_deleted_schemas
remove_deleted_schemas ==
    /\ UNCHANGED <<agentVars, driverVars, dir_exists, schema_files>>
    /\ IF ~dir_exists
       THEN /\ store_ret' = StoreRet("prune")
            /\ UNCHANGED <<collection, upserted>>
       ELSE LET json_files == JsonFiles
                stored_tables == get_all_table_names(collection)
                to_remove == Orphans(stored_tables, json_files)
            IN /\ collection' = {d \in collection : d.id \notin to_remove}
               /\ upserted' = [t \in DOMAIN upserted |->
                                 IF t \in to_remove THEN <<>> ELSE upserted[t]]
               /\ store_ret' = [StoreRet("prune") EXCEPT !.removed = Cardinality(to_remove)]

\* setup_rag_manager(force_reload) of main.py on the persistent collection:
\* a sync that is not forced when the collection is empty, otherwise
\* remove_deleted_schemas and then the sync; what the prune removed stays
\* removed when the sync raises
setup_rag_manager(force_reload) ==
    LET empty == collection = {}
        to_remove == IF empty \/ ~dir_exists
                     THEN {}
                     ELSE Orphans(get_all_table_names(collection), JsonFiles)
        pruned == {d \in collection : d.id \notin to_remove}
        kept == [t \in DOMAIN upserted |-> IF t \in to_remove THEN <<>> ELSE upserted[t]]
        force == IF empty THEN FALSE ELSE force_reload
        called == [StoreRet("setup_rag_manager") EXCEPT !.force_reload = force_reload,
                                                        !.removed = Cardinality(to_remove)]
    IN
    /\ UNCHANGED <<agentVars, driverVars, dir_exists, schema_files>>
    /\ IF ~dir_exists
       THEN /\ store_ret' = [called EXCEPT !.outcome = "raise", !.error = "FileNotFoundError"]
            /\ collection' = pruned
            /\ upserted' = kept
       ELSE IF NoJsonFiles(JsonFiles)
       THEN /\ store_ret' = [called EXCEPT !.outcome = "raise", !.error = "ValueError"]
            /\ collection' = pruned
            /\ upserted' = kept
       ELSE \E order \in Orders(JsonFiles) :
               LET done == LoadFiles(LoopStart(pruned, kept), order,
                                     get_all_table_names(pruned), force)
               IN /\ collection' = done.coll
                  /\ upserted' = done.upserted
                  /\ store_ret' = [called EXCEPT !.counts = done.counts,
                                                 !.upserts = done.upserts,
                                                 !.classes = done.classes]

\* clear_collection
clear_collection ==
    /\ collection' = {}
    /\ upserted' = [t \in DOMAIN upserted |-> <<>>]
    /\ store_ret' = StoreRet("clear")
    /\ UNCHANGED <<agentVars, driverVars, dir_exists, schema_files>>

\* add_schema(schema) called on its own: file_hash is None, stored as '';
\* repeat says the call before it was the same call and returned
call_add_schema(schema) ==
    LET added == add_schema(collection, schema, <<>>)
        called == [StoreRet("add_schema") EXCEPT
                      !.schema = <<schema>>,
                      !.upserts = added.upserts,
                      !.repeat = (/\ store_ret.op = "add_schema"
                                  /\ store_ret.outcome = "return"
                                  /\ store_ret.schema = <<schema>>)]
    IN /\ collection' = added.coll
       /\ IF added.raised
          THEN /\ store_ret' = [called EXCEPT !.outcome = "raise", !.error = "ValueError"]
               /\ UNCHANGED upserted
          ELSE /\ store_ret' = called
               /\ upserted' = [upserted EXCEPT ![schema.table_name] = <<schema>>]
       /\ UNCHANGED <<agentVars, driverVars, dir_exists, schema_files>>

\* get_schema_by_name returning the flattened metadata, schema_json unparsed
GetSchemaByNameUnparsed(coll, table_name) ==
    IF GetMetadatas(coll, table_name) = {}
    THEN <<>>
    ELSE <<CHOOSE m \in GetMetadatas(coll, table_name) : TRUE>>

\* get_schema_by_name: <<>> for None, the schema otherwise; every metadata
\* that add_schema wrote has a schema_json
get_schema_by_name(coll, table_name) ==
    IF GetMetadatas(coll, table_name) = {}
    THEN <<>>
    ELSE LET metadata == CHOOSE m \in GetMetadatas(coll, table_name) : TRUE
         IN <<json_loads(metadata.schema_json)>>

\* get_schema_by_name(table_name) called
call_get_schema_by_name(table_name) ==
    /\ store_ret' = [StoreRet("get_schema_by_name") EXCEPT
                        !.name = table_name,
                        !.value = get_schema_by_name(collection, table_name)]
    /\ UNCHANGED <<agentVars, driverVars, dir_exists, schema_files, collection, upserted>>

\* the records of coll in every order of every n of them
RECURSIVE Rankings(_, _)
Rankings(coll, n) ==
    IF n = 0 \/ coll = {} THEN {<<>>}
    ELSE UNION {{<<d>> \o r : r \in Rankings(coll \ {d}, n - 1)} : d \in coll}

\* collection.query(query_texts=[query], n_results=n_results): the records
\* nearest to the query, in some order. The collaborator rejects a limit
\* that is not positive on the builds that validate it, and a limit above
\* the number of records on the builds that do not cap it.
Query(coll, n_results) ==
    IF n_results <= 0
    THEN {[raised |-> TRUE, error |-> "TypeError", records |-> <<>>],
          [raised |-> FALSE, error |-> "", records |-> <<>>]}
    ELSE IF n_results > Cardinality(coll)
    THEN {[raised |-> TRUE, error |-> "NotEnoughElementsException", records |-> <<>>]}
         \cup [raised : {FALSE}, error : {""}, records : Rankings(coll, Cardinality(coll))]
    ELSE [raised : {FALSE}, error : {""}, records : Rankings(coll, n_results)]

\* NResults without the cap
NResultsUncapped(top_k, count) == top_k

\* min(top_k, self.collection.count())
NResults(top_k, count) == IF top_k < count THEN top_k ELSE count

\* retrieve_relevant_schemas(query, top_k); there is no try around the query
retrieve_relevant_schemas(top_k) ==
    LET n_results == NResults(top_k, Cardinality(collection))
        called == [StoreRet("retrieve") EXCEPT !.top_k = top_k, !.n_results = n_results,
                                              !.queries = 1]
    IN /\ \E results \in Query(collection, n_results) :
             IF results.raised
             THEN store_ret' = [called EXCEPT !.outcome = "raise", !.error = results.error]
             ELSE store_ret' = [called EXCEPT !.value =
                                   [i \in 1..Len(results.records) |->
                                       json_loads(results.records[i].metadata.schema_json)]]
       /\ UNCHANGED <<agentVars, driverVars, dir_exists, schema_files, collection, upserted>>

\* ------------------------------------- whoever edits the schema directory
write_file(f, bytes) ==
    /\ dir_exists
    /\ schema_files[f] # bytes
    /\ schema_files' = [schema_files EXCEPT ![f] = bytes]
    /\ store_ret' = StoreRet("write_file")
    /\ UNCHANGED <<agentVars, driverVars, dir_exists, collection, upserted>>

delete_file(f) ==
    /\ schema_files[f] # NoFile
    /\ schema_files' = [schema_files EXCEPT ![f] = NoFile]
    /\ store_ret' = StoreRet("delete_file")
    /\ UNCHANGED <<agentVars, driverVars, dir_exists, collection, upserted>>

remove_directory ==
    /\ dir_exists
    /\ JsonFiles = {}
    /\ dir_exists' = FALSE
    /\ store_ret' = StoreRet("remove_directory")
    /\ UNCHANGED <<agentVars, driverVars, schema_files, collection, upserted>>

make_directory ==
    /\ ~dir_exists
    /\ dir_exists' = TRUE
    /\ store_ret' = StoreRet("make_directory")
    /\ UNCHANGED <<agentVars, driverVars, schema_files, collection, upserted>>

\* SchemaRAGManager.__init__ on a new collection, the directory empty
InitStoreState ==
    /\ dir_exists = TRUE
    /\ schema_files = [f \in FileStems |-> NoFile]
    /\ collection = {}
    /\ upserted = [t \in TableNames |-> <<>>]
    /\ store_ret = [op |-> "init", outcome |-> "return", error |-> "", counts |-> ZeroCounts,
                    upserts |-> <<>>, removed |-> 0, force_reload |-> FALSE,
                    after_sync |-> FALSE, pre |-> {}, classes |-> NoClasses,
                    schema |-> <<>>, repeat |-> FALSE, name |-> "", top_k |-> 0,
                    n_results |-> 0, queries |-> 0, value |-> <<>>]

\* ------------------------------------------------------------ the agent
\* no thread is inside generate_query
IdleCallers == [c \in Callers |-> [pc |-> "idle", turn |-> 0, sliced |-> <<>>]]

\* interactive_mode has not been entered
NoSession ==
    [pc |-> "off", did |-> "none", raw |-> <<>>, eof |-> FALSE, explain |-> FALSE,
     pre |-> <<>>]

\* SQLAgent.__init__: the history starts empty
InitHistoryState ==
    /\ conversation_history = <<>>
    /\ heap = <<>>
    /\ snap = <<>>
    /\ appended = <<>>
    /\ ret = [op |-> "init", outcome |-> "return", value |-> <<>>, error |-> "",
              request |-> <<>>, retrieved |-> <<>>, llm_raised |-> FALSE, output |-> <<>>,
              prompts_built |-> 0, llm_calls |-> <<>>, pre |-> <<>>, preSnap |-> <<>>]
    /\ built = <<>>
    /\ callers = IdleCallers
    /\ session = NoSession

\* generate_query and clear_history: history on or off and every stored
\* length with the projection of the demos, and every projection with the
\* longest stored length
AgentConfigs ==
    [enable : BOOLEAN, max_stored : HistoryLengths, in_prompt : {1}, summarize : {TRUE}]
    \cup [enable : {TRUE}, max_stored : {2}, in_prompt : InPromptCounts, summarize : BOOLEAN]

Init ==
    /\ \E c \in AgentConfigs :
          /\ enable_conversation_history = c.enable
          /\ max_history_length = c.max_stored
          /\ history_in_prompt = c.in_prompt
          /\ summarize_old_turns = c.summarize
    /\ InitHistoryState
    /\ InitStoreState

Next ==
    \/ \E b \in Requests, e \in BOOLEAN, s \in Retrievals, l \in LlmOutcomes :
          generate_query(b, e, s, l)
    \/ clear_history

Spec == Init /\ [][Next]_vars

\* the history tracker driven on its own: append, clear, the projection
InitHistory ==
    /\ enable_conversation_history = TRUE
    /\ max_history_length \in HistoryLengths
    /\ history_in_prompt \in InPromptCounts
    /\ summarize_old_turns \in BOOLEAN
    /\ InitHistoryState
    /\ InitStoreState

NextHistory ==
    \/ \E t \in TurnInputs : append_turn(t)
    \/ clear_history
    \/ for_prompt

SpecHistory == InitHistory /\ [][NextHistory]_vars

\* the history tracker and a caller of get_history working on what it got
SnapshotTurn == [user |-> <<"g","e","t"," ","a">>, assistant |-> ShortSQL]

InitSnapshot ==
    /\ enable_conversation_history = TRUE
    /\ max_history_length \in HistoryLengths
    /\ history_in_prompt = 1
    /\ summarize_old_turns = TRUE
    /\ InitHistoryState
    /\ InitStoreState

NextSnapshot ==
    \/ append_turn(SnapshotTurn)
    \/ clear_history
    \/ get_history
    \/ caller_adds_turn
    \/ caller_removes_turn
    \/ \E i \in 1..MaxTurns, f \in {"user", "assistant"} : caller_overwrites(i, f)

SpecSnapshot == InitSnapshot /\ [][NextSnapshot]_vars

\* the prompt of one request built both ways, over the histories the agent
\* can hold
SchemaLists == Retrievals \ {<<>>}

NextPrompt ==
    \/ \E t \in TurnInputs : append_turn(t)
    \/ clear_history
    \/ \E b \in Requests, e \in BOOLEAN, s \in SchemaLists : build_prompts(b, e, s)

SpecPrompt == InitSnapshot /\ [][NextPrompt]_vars

\* two threads in generate_query on one agent, after turns made one call at
\* a time
ConcurrentLengths == {1, 2}

InitConcurrent ==
    /\ enable_conversation_history = TRUE
    /\ max_history_length \in ConcurrentLengths
    /\ history_in_prompt = 1
    /\ summarize_old_turns = TRUE
    /\ InitHistoryState
    /\ InitStoreState

\* a call made alone, before the two threads start
earlier_turn ==
    /\ \A c \in Callers : callers[c].pc = "idle"
    /\ append_turn(SnapshotTurn)

NextConcurrent ==
    \/ earlier_turn
    \/ \E c \in Callers : caller_appends(c)
    \/ \E c \in Callers : caller_tests(c)
    \/ \E c \in Callers : caller_slices(c)
    \/ \E c \in Callers : caller_assigns(c)

SpecConcurrent == InitConcurrent /\ [][NextConcurrent]_vars

\* the interactive session of one agent
SessionOutcomes == { l \in LlmOutcomes : Len(l.text) <= Len(ShortSQL) + 2 }

LoopSteps ==
    \/ \E i \in Inputs, r \in Retrievals, l \in SessionOutcomes : loop_turn(i, r, l)
    \/ prints_error

NextSession ==
    \/ \E e \in BOOLEAN : interactive_mode(e)
    \/ LoopSteps

SessionLengths == {1}

InitSession ==
    /\ enable_conversation_history = TRUE
    /\ max_history_length \in SessionLengths
    /\ history_in_prompt = 1
    /\ summarize_old_turns = TRUE
    /\ InitHistoryState
    /\ InitStoreState

SpecSession == InitSession /\ [][NextSession]_vars

\* the loop runs on while it has a step to take: a while True in one thread
SpecSessionFair == SpecSession /\ WF_vars(LoopSteps)

\* the schema store and the directory it is loaded from; the agent as the
\* demos configure it, never called
InitStore ==
    /\ enable_conversation_history = TRUE
    /\ max_history_length = 2
    /\ history_in_prompt = 1
    /\ summarize_old_turns = TRUE
    /\ InitHistoryState
    /\ InitStoreState

NextStore ==
    \/ \E force_reload \in BOOLEAN : load_schemas_from_directory(force_reload)
    \/ remove_deleted_schemas
    \/ clear_collection
    \/ \E f \in FileStems, bytes \in FileContents : write_file(f, bytes)
    \/ \E f \in FileStems : delete_file(f)
    \/ remove_directory
    \/ make_directory

SpecStore == InitStore /\ [][NextStore]_vars

\* the program started again and again while the schema files are edited
NextStartup ==
    \/ \E force_reload \in BOOLEAN : setup_rag_manager(force_reload)
    \/ \E f \in FileStems, bytes \in FileContents : write_file(f, bytes)
    \/ \E f \in FileStems : delete_file(f)

SpecStartup == InitStore /\ [][NextStartup]_vars

\* the schema store called directly: add_schema, the two lookups, and the
\* operations that fill and empty it
SchemaInputs == [table_name : TableNames \cup Falsy, rev : 1..MaxRevisions]

\* top_k below and above the number of tables
TopKs == {1, 3}

\* the names asked of get_schema_by_name; one is never a table
LookupNames == TableNames \cup {"misc"}

\* the files written while the store is called directly
LookupFiles == {"customers", "misc"}

LookupContents == [kind : {"json"}, table_name : TableNames, rev : {1}]

NextLookup ==
    \/ \E schema \in SchemaInputs : call_add_schema(schema)
    \/ \E top_k \in TopKs : retrieve_relevant_schemas(top_k)
    \/ \E table_name \in LookupNames : call_get_schema_by_name(table_name)
    \/ \E force_reload \in BOOLEAN : load_schemas_from_directory(force_reload)
    \/ remove_deleted_schemas
    \/ clear_collection
    \/ \E f \in LookupFiles, bytes \in LookupContents : write_file(f, bytes)
    \/ \E f \in LookupFiles : delete_file(f)

SpecLookup == InitStore /\ [][NextLookup]_vars

\* ================================================================ claims
Min(a, b) == IF a < b THEN a ELSE b

\* the last k elements of the sequence h
LastK(h, k) == SubSeq(h, Len(h) - k + 1, Len(h))

HistoryView == View(conversation_history, heap)

\* v is s without its leading and trailing whitespace
IsTrimOf(v, s) ==
    /\ Len(v) <= Len(s)
    /\ v # <<>> => (v[1] \notin Whitespace /\ v[Len(v)] \notin Whitespace)
    /\ \E lead \in 0..(Len(s) - Len(v)) :
          /\ v = SubSeq(s, lead + 1, lead + Len(v))
          /\ \A k \in 1..Len(s) : (k <= lead \/ k > lead + Len(v)) => s[k] \in Whitespace

\* the eviction rule as the specification words it: while the history is
\* longer than maxStored, drop from the front
EvictOldest(h, maxStored) == IF Len(h) > maxStored THEN LastK(h, maxStored) ELSE h

\* C1: a generate_query call whose retrieval is empty returns exactly
\* "Error: No relevant tables found for this query.", builds no prompt, makes
\* no generation call and leaves the history as it was, with history enabled
\* or not.
C1_EmptyRetrievalShortCircuits ==
    (ret.op = "generate_query" /\ ret.retrieved = <<>>) =>
        /\ ret.outcome = "return"
        /\ ret.value = NoTablesError
        /\ ret.prompts_built = 0
        /\ ret.llm_calls = <<>>
        /\ HistoryView = ret.pre

C1_Witness ==
    /\ ret.op = "generate_query"
    /\ ret.retrieved = <<>>
    /\ enable_conversation_history
    /\ Len(conversation_history) = 2

\* C2 (as claimed): a generate_query call with history enabled, a non-empty
\* retrieval and a generation call that succeeds appends exactly one turn,
\* whose request is the call's request and whose response is the generation
\* output without its leading and trailing whitespace, then applies the
\* maxStored eviction rule, and returns that trimmed response.
C2_AppendsOneTurnThenEvicts ==
    (/\ ret.op = "generate_query"
     /\ ret.outcome = "return"
     /\ ret.retrieved # <<>>
     /\ enable_conversation_history) =>
        LET new == Len(heap)
            before == [i \in 1..Len(ret.pre) |-> ret.pre[i].ref]
        IN /\ heap[new].user = ret.request
           /\ IsTrimOf(heap[new].assistant, ret.output)
           /\ ret.value = heap[new].assistant
           /\ \A i \in 1..Len(before) : before[i] # new
           /\ conversation_history = EvictOldest(Append(before, new), max_history_length)
           /\ \A i \in 1..Len(ret.pre) :
                 /\ heap[ret.pre[i].ref].user = ret.pre[i].user
                 /\ heap[ret.pre[i].ref].assistant = ret.pre[i].assistant

\* C3: when the generation capability raises, generate_query raises that same
\* error, has called the capability exactly once, returns no string and
\* leaves the history as it was.
C3_GenerationFailurePropagates ==
    (ret.op = "generate_query" /\ ret.llm_raised) =>
        /\ ret.outcome = "raise"
        /\ ret.error = "ProviderError"
        /\ Len(ret.llm_calls) = 1
        /\ ret.value = <<>>
        /\ HistoryView = ret.pre

C3_Witness ==
    /\ ret.op = "generate_query"
    /\ ret.llm_raised
    /\ ret.outcome = "raise"
    /\ enable_conversation_history
    /\ conversation_history # <<>>

\* C4: with maxStored >= 1, after n appends to an empty history the stored
\* history is the last min(n, maxStored) appended turns, oldest survivor
\* first, so eviction only ever removed turns from the front.
C4_LastAppendedSurvive ==
    max_history_length >= 1 =>
        HistoryView = LastK(appended, Min(Len(appended), max_history_length))

C4_Witness ==
    /\ ret.op = "append"
    /\ max_history_length = 2
    /\ Len(appended) = 3
    /\ Len(conversation_history) = 2

\* C5 (as claimed): for every turnsToExpose >= 0 and a stored history of n
\* turns, forPrompt returns the last min(turnsToExpose, n) stored turns in
\* order: none when turnsToExpose is 0, never more than turnsToExpose.
C5_ForPromptReturnsLastTurns ==
    ret.op = "for_prompt" =>
        LET n == Len(conversation_history)
            k == Min(history_in_prompt, n)
        IN /\ Len(ret.value) <= history_in_prompt
           /\ [i \in 1..Len(ret.value) |-> ret.value[i].of] = LastK(conversation_history, k)

\* C6: a forPrompt call, summarizing or not and whatever turnsToExpose, leaves
\* the stored history as it was, turn for turn and field for field, also for
\* the turns whose response it summarized.
C6_ForPromptDoesNotMutate ==
    ret.op = "for_prompt" => HistoryView = ret.pre

C6_Witness ==
    /\ ret.op = "for_prompt"
    /\ summarize_old_turns
    /\ \E i \in 1..Len(ret.value) : ~ret.value[i].alias
    /\ Len(ret.value) = 2

\* C7 (as claimed): what get_history returned is independent of the stored
\* history: the caller adding or removing turns in the list, or overwriting a
\* field of a returned turn, leaves the stored history unchanged, and a later
\* append or clear leaves the returned list unchanged.
C7_SnapshotIndependent ==
    /\ ret.op \in {"caller_adds_turn", "caller_removes_turn", "caller_overwrites"} =>
           HistoryView = ret.pre
    /\ ret.op \in {"append", "clear_history"} => View(snap, heap) = ret.preSnap

\* "Generated SQL query: " and "..." as the claim words them
ClaimedOpen == Tail(SummaryOpen)

ClaimedEllipsis == <<".", ".", ".">>

\* every turn forPrompt returned is a stored turn, with the response
\* Summary(stored response) when that is longer than 200 characters, the
\* stored response otherwise, and the stored request
SummarizedAs(open, close) ==
    (ret.op = "for_prompt" /\ summarize_old_turns) =>
        \A i \in 1..Len(ret.value) :
            LET stored == heap[ret.value[i].of]
            IN /\ \E j \in 1..Len(conversation_history) :
                     conversation_history[j] = ret.value[i].of
               /\ ret.value[i].user = stored.user
               /\ Len(stored.assistant) > 200 =>
                     ret.value[i].assistant = open \o SubSeq(stored.assistant, 1, 100) \o close
               /\ Len(stored.assistant) <= 200 =>
                     ret.value[i].assistant = stored.assistant

\* C8 (as claimed): with summarize true, a returned turn whose stored response
\* is longer than 200 characters has the response "Generated SQL query: "
\* followed by the first 100 characters and an ellipsis; a response of 200
\* characters or fewer is returned unchanged; the request is unmodified.
C8_AsClaimed == SummarizedAs(ClaimedOpen, ClaimedEllipsis)

\* C8 (amended): as C8, with the response "[Generated SQL query: " followed by
\* the first 100 characters and "...]".
C8_SummaryInBrackets == SummarizedAs(SummaryOpen, SummaryClose)

C8_Witness ==
    /\ ret.op = "for_prompt"
    /\ summarize_old_turns
    /\ \E i \in 1..Len(ret.value) : Len(heap[ret.value[i].of].assistant) = 201
    /\ \E i \in 1..Len(ret.value) : Len(heap[ret.value[i].of].assistant) = 200

\* every schema file parses and declares a table_name
AllWellFormed ==
    \A f \in JsonFiles : schema_files[f].kind = "json" /\ schema_files[f].table_name # ""

\* the last operation was a sync that returned its counts, and the operation
\* before it was one too: the second of two syncs in a row over the same files
SecondSyncInARow ==
    /\ store_ret.op = "sync"
    /\ store_ret.outcome = "return"
    /\ store_ret.after_sync

\* C9 (as claimed): for every set of well-formed source documents, the second
\* of two syncs in a row over identical content, not forced, returns new = 0,
\* updated = 0 and skipped = the number of documents, makes no upsert and
\* leaves the store as the first sync left it.
C9_SecondSyncSkipsAll ==
    (SecondSyncInARow /\ ~store_ret.force_reload /\ AllWellFormed) =>
        /\ store_ret.counts = [new |-> 0, updated |-> 0,
                               skipped |-> Cardinality(JsonFiles), errors |-> 0]
        /\ store_ret.upserts = <<>>
        /\ collection = store_ret.pre

\* C10: a forced sync over content identical to what the store holds returns
\* updated = the number of documents, skipped = 0 and new = 0, and upserts
\* every document again.
C10_ForcedReloadUpdatesAll ==
    (SecondSyncInARow /\ store_ret.force_reload /\ AllWellFormed) =>
        /\ store_ret.counts = [new |-> 0, updated |-> Cardinality(JsonFiles),
                               skipped |-> 0, errors |-> 0]
        /\ Len(store_ret.upserts) = Cardinality(JsonFiles)
        /\ \A f \in JsonFiles :
              \E i \in 1..Len(store_ret.upserts) :
                 store_ret.upserts[i] = [id |-> schema_files[f].table_name,
                                         file_hash |-> get_file_hash(schema_files[f])]

C10_Witness ==
    /\ SecondSyncInARow
    /\ store_ret.force_reload
    /\ AllWellFormed
    /\ Cardinality(JsonFiles) = 2
    /\ \A f \in JsonFiles :
          stored_file_hash(store_ret.pre, schema_files[f].table_name)
              = get_file_hash(schema_files[f])

\* the file f parses and declares a table_name
WellFormedFile(f) ==
    schema_files[f].kind = "json" /\ schema_files[f].table_name \notin Falsy

\* the last operation was a sync that returned its counts
SyncReturned == store_ret.op = "sync" /\ store_ret.outcome = "return"

\* the sync upserted the file f: its table_name with the hash of its bytes
UpsertedFrom(f) ==
    \E i \in 1..Len(store_ret.upserts) :
        store_ret.upserts[i] = [id |-> schema_files[f].table_name,
                                file_hash |-> get_file_hash(schema_files[f])]

\* C11 (as claimed): in a sync that is not forced, a well-formed file is
\* upserted if and only if its table_name was absent from the store or the
\* hash stored for it differs from the hash of the file's bytes; it is counted
\* new in the first case, updated in the second, skipped otherwise; after the
\* sync the hash stored for every upserted file's table_name is the hash of
\* that file's bytes.
C11_UpsertedIffNewOrChanged ==
    (SyncReturned /\ ~store_ret.force_reload) =>
        \A f \in JsonFiles :
            WellFormedFile(f) =>
                LET table_name == schema_files[f].table_name
                    file_hash == get_file_hash(schema_files[f])
                    absent == table_name \notin get_all_table_names(store_ret.pre)
                    differs == stored_file_hash(store_ret.pre, table_name) # file_hash
                    counted == store_ret.classes[f]
                IN /\ counted = (IF absent THEN "new"
                                 ELSE IF differs THEN "updated" ELSE "skipped")
                   /\ UpsertedFrom(f) <=> (absent \/ differs)
                   /\ counted \in {"new", "updated"} =>
                         stored_file_hash(collection, table_name) = file_hash

C13_PruneKeepsDeclaredTables ==
    store_ret.op = "prune" =>
        \A d \in store_ret.pre :
            (\E f \in JsonFiles : WellFormedFile(f) /\ schema_files[f].table_name = d.id)
                => d \in collection

\* C17: a sync over a directory with malformed files (no table_name, or
\* bytes that do not load) returns its counts, counts every malformed file
\* once in errors and upserts nothing for it, and leaves the store, the
\* upserts and the count of every well-formed file as a sync over the
\* well-formed files alone leaves them.
C17_MalformedCountedAndIsolated ==
    (store_ret.op = "sync" /\ dir_exists /\ JsonFiles # {}) =>
        LET bad == {f \in JsonFiles : ~WellFormedFile(f)}
            good == JsonFiles \ bad
        IN /\ store_ret.outcome = "return"
           /\ store_ret.counts.errors = Cardinality(bad)
           /\ \A f \in bad : store_ret.classes[f] = "errors"
           /\ \A i \in 1..Len(store_ret.upserts) :
                 \E f \in good : store_ret.upserts[i].id = schema_files[f].table_name
           /\ \A d \in collection :
                 d \in store_ret.pre \/ \E f \in good : d.id = schema_files[f].table_name
           /\ \E order \in Orders(good) :
                 LET alone == LoadFiles(LoopStart(store_ret.pre, upserted), order,
                                        get_all_table_names(store_ret.pre),
                                        store_ret.force_reload)
                 IN /\ collection = alone.coll
                    /\ store_ret.upserts = alone.upserts
                    /\ \A f \in good : store_ret.classes[f] = alone.classes[f]
                    /\ store_ret.counts = [alone.counts EXCEPT !.errors = Cardinality(bad)]

C17_Witness ==
    /\ SyncReturned
    /\ Cardinality(JsonFiles) = 3
    /\ \E f \in JsonFiles : schema_files[f].kind = "garbage"
    /\ \E f \in JsonFiles : schema_files[f].kind = "json" /\ schema_files[f].table_name = ""
    /\ store_ret.counts = [new |-> 0, updated |-> 1, skipped |-> 0, errors |-> 2]

\* C19: a sync called while the directory is missing or holds no *.json
\* file raises (FileNotFoundError, ValueError), returns no counts, makes no
\* upsert and leaves the store as it was.
C19_NoSourceRaises ==
    (store_ret.op = "sync" /\ (~dir_exists \/ JsonFiles = {})) =>
        /\ store_ret.outcome = "raise"
        /\ store_ret.error = (IF dir_exists THEN "ValueError" ELSE "FileNotFoundError")
        /\ store_ret.counts = ZeroCounts
        /\ store_ret.upserts = <<>>
        /\ collection = store_ret.pre

C19_Witness ==
    /\ store_ret.op = "sync"
    /\ store_ret.outcome = "raise"
    /\ dir_exists
    /\ JsonFiles = {}
    /\ collection # {}

\* the schema add_schema was last called with
Added == store_ret.schema[1]

\* C14: the store never holds two documents with one table_name; an
\* add_schema whose table_name is already stored replaces that document,
\* leaves the others and the set of stored table_names as they were; and an
\* add_schema repeated with the same schema leaves the store as the first
\* call left it.
C14_OneDocumentPerTableName ==
    /\ \A d, e \in collection : d.id = e.id => d = e
    /\ (store_ret.op = "add_schema" /\ store_ret.outcome = "return") =>
          /\ Added.table_name \in get_all_table_names(store_ret.pre) =>
                get_all_table_names(collection) = get_all_table_names(store_ret.pre)
          /\ {d \in collection : d.id # Added.table_name}
                = {d \in store_ret.pre : d.id # Added.table_name}
          /\ {d.metadata.schema_json : d \in {x \in collection : x.id = Added.table_name}}
                = {json_dumps(Added)}
          /\ store_ret.repeat => collection = store_ret.pre

C14_Witness ==
    /\ store_ret.op = "add_schema"
    /\ store_ret.outcome = "return"
    /\ ~store_ret.repeat
    /\ Cardinality(store_ret.pre) = 2
    /\ collection # store_ret.pre
    /\ store_ret.after_sync

\* C15: on a store that is not empty, retrieve with top_k >= 1 asks the
\* vector store for min(top_k, store size) results, does not raise, and
\* returns at most that many documents, each one stored, none twice.
C15_RetrieveCapped ==
    (store_ret.op = "retrieve" /\ store_ret.pre # {} /\ store_ret.top_k >= 1) =>
        LET limit == Min(store_ret.top_k, Cardinality(store_ret.pre))
        IN /\ store_ret.n_results = limit
           /\ store_ret.queries = 1
           /\ store_ret.outcome = "return"
           /\ Len(store_ret.value) <= limit
           /\ \A i \in 1..Len(store_ret.value) :
                 /\ store_ret.value[i].table_name \in get_all_table_names(collection)
                 /\ <<store_ret.value[i]>> = upserted[store_ret.value[i].table_name]
           /\ \A i, j \in 1..Len(store_ret.value) :
                 i # j => store_ret.value[i].table_name # store_ret.value[j].table_name

C15_Witness ==
    /\ store_ret.op = "retrieve"
    /\ store_ret.top_k = 3
    /\ Cardinality(store_ret.pre) = 2
    /\ Len(store_ret.value) = 2

\* C16 (as claimed): on an empty store, also one emptied by clear or by
\* pruning, retrieve with top_k >= 1 passes the limit 0 to the vector store,
\* does not raise and returns an empty sequence.
C16_EmptyStoreRetrievesNothing ==
    (store_ret.op = "retrieve" /\ store_ret.pre = {} /\ store_ret.top_k >= 1) =>
        /\ store_ret.n_results = 0
        /\ store_ret.outcome = "return"
        /\ store_ret.value = <<>>

\* C18: add_schema of a schema whose table_name is missing or empty raises
\* ValueError, makes no call of collection.upsert and leaves the store as
\* it was.
C18_InvalidSchemaRejected ==
    (store_ret.op = "add_schema" /\ Added.table_name \in Falsy) =>
        /\ store_ret.outcome = "raise"
        /\ store_ret.error = "ValueError"
        /\ store_ret.upserts = <<>>
        /\ collection = store_ret.pre

C18_Witness ==
    /\ store_ret.op = "add_schema"
    /\ Added.table_name = None
    /\ store_ret.outcome = "raise"
    /\ collection # {}

\* C20: get_schema_by_name does not raise; for a stored table_name it
\* returns the schema last passed to add_schema under that table_name, every
\* field as it was before json.dumps, and None for a name that is not stored.
C20_LookupReturnsLastUpserted ==
    store_ret.op = "get_schema_by_name" =>
        /\ store_ret.outcome = "return"
        /\ IF store_ret.name \in get_all_table_names(collection)
           THEN /\ Len(store_ret.value) = 1
                /\ store_ret.value = upserted[store_ret.name]
           ELSE store_ret.value = <<>>

C20_Witness ==
    /\ store_ret.op = "get_schema_by_name"
    /\ store_ret.name = "orders"
    /\ store_ret.value = <<[table_name |-> "orders", rev |-> 2]>>
    /\ Cardinality(collection) = 2

\* the prompts last built
Built == built[1]

\* C21 (as claimed): the (system message, user message) pair carries what
\* the combined prompt carries, in the same order: the system instructions,
\* the schema context, the previous-conversation block when history is
\* given, the request, the task instructions, the explanation instructions
\* when explaining, and the output-format directive.
C21_PairCarriesCombinedPrompt ==
    built # <<>> =>
        /\ <<"system_prompt">> \o Built.user_layout = Built.combined_layout
        /\ Built.system.system_prompt = Built.combined.system_prompt
        /\ Built.user.schema_context = Built.combined.schema_context
        /\ Built.user.history_block = Built.combined.history_block
        /\ Built.user.history = Built.combined.history
        /\ Built.user.business_logic = Built.combined.business_logic
        /\ Built.user.task = Built.combined.task
        /\ Built.user.explanation = Built.combined.explanation
        /\ Built.user.output_format = Built.combined.output_format

\* C22 (as claimed): with two callers in generate_query on one agent, once
\* no caller is inside its append-and-evict the history is the last
\* min(n, maxStored) appended turns in the order of their appends (both
\* callers' turns when maxStored >= 2), and it is no longer than maxStored.
C22_AppendAndEvictAtomic ==
    Quiescent =>
        /\ Len(conversation_history) <= max_history_length
        /\ HistoryView = LastK(appended, Min(Len(appended), max_history_length))
        /\ (max_history_length >= 2 /\ \A c \in Callers : callers[c].pc = "done") =>
              \A c \in Callers :
                 \E i \in 1..Len(conversation_history) :
                    conversation_history[i] = callers[c].turn

\* the history a generate_query call found, as a list 1..n over its own heap
PreHeap == [i \in 1..Len(ret.pre) |-> [user |-> ret.pre[i].user,
                                        assistant |-> ret.pre[i].assistant]]

PreHistory == [i \in 1..Len(ret.pre) |-> i]

\* the previous-conversation entries of the prompt the generation call got
SentHistory == ret.llm_calls[1].prompt.history

\* C24: the previous-conversation block of the prompt a generate_query call
\* sends is forPrompt of the history as the call found it: its entries are
\* made of turns stored before the call, never of the turn of the request
\* itself, which is stored only when the generation call has returned; a call
\* whose generation call raises stores nothing; with history disabled the
\* prompt has no such block and the call leaves the history as it was
C24_HistoryReadBeforeWritten ==
    (ret.op = "generate_query" /\ ret.llm_calls # <<>>) =>
        LET expected == prepare_history_for_prompt(PreHistory, PreHeap).turns
            prompt == ret.llm_calls[1].prompt
        IN IF enable_conversation_history
           THEN /\ Len(SentHistory) = Len(expected)
                /\ \A i \in 1..Len(expected) :
                      /\ SentHistory[i].user = expected[i].user
                      /\ SentHistory[i].assistant = expected[i].assistant
                      /\ SentHistory[i].of = ret.pre[expected[i].of].ref
                /\ prompt.history_block <=> expected # <<>>
                /\ ret.outcome = "return" =>
                      /\ \A i \in 1..Len(SentHistory) : SentHistory[i].of # Len(heap)
                      /\ \A i \in 1..Len(ret.pre) : ret.pre[i].ref # Len(heap)
                      /\ conversation_history # <<>> =>
                            conversation_history[Len(conversation_history)] = Len(heap)
                /\ ret.outcome = "raise" => HistoryView = ret.pre
           ELSE /\ ~prompt.history_block
                /\ SentHistory = <<>>
                /\ HistoryView = ret.pre
                /\ conversation_history = <<>>

\* a call that found two turns sent both, one of them summarized, and stored
\* its own turn afterwards
C24_Witness ==
    /\ ret.op = "generate_query"
    /\ ret.outcome = "return"
    /\ ret.llm_calls # <<>>
    /\ enable_conversation_history
    /\ Len(ret.pre) = 2
    /\ Len(SentHistory) = 2
    /\ \E i \in 1..2 : ~SentHistory[i].alias
    /\ conversation_history[Len(conversation_history)] = Len(heap)

\* C25 (as claimed): whatever max_history_length >= 0 the agent was made
\* with, 0 included, the history never holds more than max_history_length
\* turns, after any generate_query and clear_history calls
C25_StoredAtMostMaxStored == Len(conversation_history) <= max_history_length

\* the files of the batch the last sync counted under key
CountedAs(key) == {f \in JsonFiles : store_ret.classes[f] = key}

\* C26: a sync that returns its counts has counted every *.json file of the
\* directory under exactly one of new, updated, skipped, errors, so the four
\* counts add up to the number of files, forced or not
C26_CountsAddUpToBatch ==
    SyncReturned =>
        /\ \A f \in JsonFiles : store_ret.classes[f] \in {"new", "updated", "skipped", "errors"}
        /\ \A key \in {"new", "updated", "skipped", "errors"} :
              store_ret.counts[key] = Cardinality(CountedAs(key))
        /\ store_ret.counts.new + store_ret.counts.updated
              + store_ret.counts.skipped + store_ret.counts.errors = Cardinality(JsonFiles)

\* a sync that was not forced over a changed file, an unchanged one and a
\* malformed one
C26_Witness ==
    /\ SyncReturned
    /\ ~store_ret.force_reload
    /\ Cardinality(JsonFiles) = 3
    /\ store_ret.counts = [new |-> 0, updated |-> 1, skipped |-> 1, errors |-> 1]

\* C27 (as claimed): the new count of a sync is the number of table_names
\* stored after it that were not stored before it, and the store has grown by
\* that many documents
C27_NewCountsAddedNames ==
    SyncReturned =>
        /\ store_ret.counts.new =
              Cardinality(get_all_table_names(collection)
                            \ get_all_table_names(store_ret.pre))
        /\ Cardinality(collection) = Cardinality(store_ret.pre) + store_ret.counts.new

\* the table_names the well-formed files of the directory declare
DeclaredTables == {schema_files[f].table_name : f \in {g \in JsonFiles : WellFormedFile(g)}}

\* C28 (as claimed): when setup_rag_manager has returned, the stored
\* table_names are those the well-formed files present declare: no document
\* is left of a definition that is gone and none is missing of one that is
\* there, whatever the store held and however the files are named
C28_StartupReconciles ==
    (store_ret.op = "setup_rag_manager" /\ store_ret.outcome = "return") =>
        get_all_table_names(collection) = DeclaredTables

\* the loop has read a line and dispatched it
LineRead == session.did \in {"break", "skip", "clear", "history", "generate"}

LineText == Strip(session.raw)

Forwarded ==
    /\ session.did = "generate"
    /\ ret.op = "generate_query"
    /\ ret.request = LineText

\* C23 as stated: a line is forwarded to generate_query if and only if its
\* trimmed text is not, ignoring case, one of exit, quit, clear, history; exit
\* and quit end the session, clear empties the history and history leaves it
\* as it was, neither with a call of generate_query
C23_AsClaimed ==
    LineRead =>
        /\ Forwarded <=>
               Lower(LineText) \notin { <<"e","x","i","t">>, <<"q","u","i","t">>,
                                        ClearWord, HistoryWord }
        /\ Lower(LineText) \in { <<"e","x","i","t">>, <<"q","u","i","t">> }
               => session.pc = "ended"
        /\ Lower(LineText) = ClearWord
               => ~Forwarded /\ View(conversation_history, heap) = <<>>
        /\ Lower(LineText) = HistoryWord
               => ~Forwarded /\ View(conversation_history, heap) = session.pre

\* C23, amended: a line is forwarded to generate_query if and only if its
\* trimmed text is not empty and is not, ignoring case, one of exit, quit, q,
\* clear, history; exit, quit and q end the session; an empty line is skipped
\* with the history as it was; clear empties the history and history leaves
\* it as it was, none of them with a call of generate_query
C23_LineDispatch ==
    LineRead =>
        /\ Forwarded <=>
               /\ LineText # <<>>
               /\ Lower(LineText) \notin { <<"e","x","i","t">>, <<"q","u","i","t">>, <<"q">>,
                                           ClearWord, HistoryWord }
        /\ Lower(LineText) \in { <<"e","x","i","t">>, <<"q","u","i","t">>, <<"q">> }
               <=> session.did = "break"
        /\ session.did = "break" => session.pc = "ended"
        /\ session.did # "break" => session.pc # "ended"
        /\ LineText = <<>>
               => /\ session.did = "skip"
                  /\ View(conversation_history, heap) = session.pre
        /\ Lower(LineText) = ClearWord
               => session.did = "clear" /\ View(conversation_history, heap) = <<>>
        /\ Lower(LineText) = HistoryWord
               => /\ session.did = "history"
                  /\ View(conversation_history, heap) = session.pre

\* a request that begins with a reserved word was forwarded whole and
\* answered, with a turn already in the history
C23_Witness ==
    /\ Forwarded
    /\ session.raw = <<"q","u","i","t"," ","a">>
    /\ ret.outcome = "return"
    /\ ret.pre # <<>>

\* C29: the session ends on an exit word and on an interrupt, a request that
\* fails does not end it, and once the input has ended the session ends
C29_SessionTerminates ==
    /\ [](session.did \in {"break", "interrupt"} => session.pc = "ended")
    /\ [](session.did = "generate" /\ ret.outcome = "raise" => session.pc # "ended")
    /\ (session.eof ~> session.pc = "ended")
====
